---- MODULE Spec2Model ----
(***************************************************************************)
(* A model of the event-study pipeline: event_study.py (shock detection,   *)
(* event windows, sigma- and beta-convergence, result files),              *)
(* robustness_checks.py (the same windows rebuilt from shock_dates_used.csv*)
(* and three covariance estimators) and streamlit_app.py (the dashboard    *)
(* that reads the result files).                                           *)
(*                                                                         *)
(* Numbers. The scripts compute in IEEE doubles; the model computes the    *)
(* same quantities exactly, as integers and as rationals <<num, den>> with *)
(* den > 0. A missing value (NaN) is the empty tuple <<>> and a present    *)
(* value v is <<v>>. Square roots (std, standard errors) are never taken:  *)
(* a comparison against mean + 1.5*std is decided on squares, and a        *)
(* standard error is kept only as "NaN or not".                            *)
(*                                                                         *)
(* Dates. A timestamp (midnight of a day) is one integer,                  *)
(* (year*12 + month-1)*32 + day, so that integer order is date order.      *)
(***************************************************************************)
EXTENDS Integers, Sequences, FiniteSets, TLC

\* ----------------------------------------------------------------- numbers

NaN == <<>>

Val(v) == <<v>>

IsNaN(o) == o = <<>>

Abs(i) == IF i < 0 THEN -i ELSE i

Min2(a, b) == IF a <= b THEN a ELSE b

RECURSIVE GCD(_, _)
GCD(a, b) == IF b = 0 THEN Abs(a) ELSE GCD(b, a % b)

\* A rational in lowest terms with a positive denominator.
Rat(n, d) ==
    LET g == GCD(Abs(n), Abs(d))
        s == IF d < 0 THEN -1 ELSE 1
    IN  <<(s * n) \div g, (s * d) \div g>>

RatAdd(p, q) == Rat(p[1] * q[2] + q[1] * p[2], p[2] * q[2])

RatLess(p, q) == p[1] * q[2] < q[1] * p[2]

RatZero == <<0, 1>>

SetMin(S) == CHOOSE x \in S : \A y \in S : x <= y

RECURSIVE SumRange(_, _, _)
SumRange(ints, lo, hi) ==
    IF lo > hi THEN 0
    ELSE IF lo = hi THEN ints[lo]
    ELSE LET mid == (lo + hi) \div 2
         IN  SumRange(ints, lo, mid) + SumRange(ints, mid + 1, hi)

\* Sum of a sequence of integers.
Sum(ints) == SumRange(ints, 1, Len(ints))

\* The elements of a finite set of integers in ascending order.
SortedSeqOf(S) ==
    [i \in 1..Cardinality(S) |->
        CHOOSE x \in S : Cardinality({y \in S : y < x}) = i - 1]

RECURSIVE Flatten(_, _, _)
\* The concatenation of the sequences seqs[lo..hi].
Flatten(seqs, lo, hi) ==
    IF lo > hi THEN <<>>
    ELSE IF lo = hi THEN seqs[lo]
    ELSE LET mid == (lo + hi) \div 2
         IN  Flatten(seqs, lo, mid) \o Flatten(seqs, mid + 1, hi)

\* DataFrame.sort_values on one integer key: ascending and stable (rows of
\* equal key keep their order). sort_values on several columns is a stable
\* sort on each column, the last column first.
StableSortBy(seq, Key(_)) ==
    LET keys   == SortedSeqOf({Key(seq[i]) : i \in DOMAIN seq})
        groups == [k \in DOMAIN keys |-> SelectSeq(seq, LAMBDA r : Key(r) = keys[k])]
    IN  Flatten(groups, 1, Len(groups))

\* ------------------------------------------------------------------- dates

MkDate(y, m, d) == (y * 12 + (m - 1)) * 32 + d

Year(dt) == (dt \div 32) \div 12

Month(dt) == ((dt \div 32) % 12) + 1

Day(dt) == dt % 32

IsLeap(y) == (y % 4 = 0 /\ y % 100 # 0) \/ y % 400 = 0

DaysInMonth(y, m) ==
    IF m = 2 THEN (IF IsLeap(y) THEN 29 ELSE 28)
    ELSE IF m \in {4, 6, 9, 11} THEN 30 ELSE 31

\* ts + pd.DateOffset(months=k): the month moves by k and the day is kept,
\* cut to the last day of the month reached.
DateOffset(dt, k) ==
    LET idx == Year(dt) * 12 + (Month(dt) - 1) + k
        y   == idx \div 12
        m   == (idx % 12) + 1
    IN  MkDate(y, m, Min2(Day(dt), DaysInMonth(y, m)))

robust_month_diff(a, b) == (Year(a) - Year(b)) * 12 + (Month(a) - Month(b))

\* Timestamp.strftime("%Y-%m"): the text "YYYY-MM", kept as <<year, month>>.
StrfYearMonth(dt) == <<Year(dt), Month(dt)>>

\* pd.to_datetime(text, format="%Y-%m"), and pd.to_datetime(text + "-01"):
\* the first day of the month named.
ParseYearMonth(ym) == MkDate(ym[1], ym[2], 1)

\* ------------------------------------------------------- program constants

WINDOW == 6

\* THRESH_STD_MULTIPLIER = 1.5 = ThreshNum / ThreshDen
ThreshNum == 3

ThreshDen == 2

\* "if len(gg) >= 30" in event_study.py, "if n < 30" in robustness_checks.py
MIN_OBS == 30

\* "if len(shock_dates) > 24" ... ".head(24)"
MAX_SHOCKS == 24

REL_PRIORITY == <<"relc", "relu", "relr">>

StateNames == <<"state", "state_name", "statename", "st_name", "states">>

\* ------------------------------------------ the workbook event_study.py reads

\* Bounds of the inputs. A small panel has SmallStates states; a big one has
\* BigStates states over BigMonths months (enough rows per event time for a
\* regression); a long one has one state over LongMonths months
\* (enough months for more than MAX_SHOCKS candidates of different heights).
SmallStates == 2

BigStates == 30

ShortMonths == 5

MidMonths == 9

FullMonths == 14

BigMonths == 8

LongMonths == 151

\* The lowest step of a "ramp" or "shelf" panel.
RampBase == 40

\* The first month of every panel.
StartYear == 2019

StartMonth == 9

\* Headers of the sheets considered, in column order.
L_ym       == <<"state", "year", "month", "relc">>
L_ym_veg   == <<"state", "year", "month", "relc", "veg_price">>
L_date     == <<"state", "date", "relc">>
L_date_veg == <<"state", "date", "relc", "veg_price">>
L_region   == <<"region", "year", "month", "price">>
L_nostate  == <<"year", "month", "relc">>
L_nodate   == <<"state", "year", "relc">>
L_nonum    == <<"state", "date", "note">>

\* Columns whose dtype is numeric, columns named rel..., columns named ...veg...
NumericCols == {"year", "month", "relc", "relu", "relr", "price", "veg_price"}
RelPrefixed == {"relc", "relu", "relr"}
VegNamed    == {"veg_price"}

\* The step of the staircase at spike month p: 1, or, in a "ramp" or "shelf"
\* panel of n spikes, RampBase plus a height that depends on the rank
\* r = 7 j mod n of the j-th spike, so that heights do not follow the dates:
\*   ramp:  0, 1, 1, 2, 3, ... for r = 0, 1, 2, 3, 4, ... (the lowest step is
\*          alone, the next two are equal, the others all differ)
\*   shelf: 0, 0, 0, 1, 2, ... for r = 0, 1, 2, 3, 4, ... (the three lowest
\*          steps are equal, the others all differ)
StepAt(kind, spikes, p) ==
    IF kind \notin {"ramp", "shelf"} THEN 1
    ELSE LET n == Cardinality(spikes)
             j == Cardinality({q \in spikes : q <= p})
             r == (7 * j) % n
         IN  RampBase + (IF kind = "shelf" THEN (IF r <= 2 THEN 0 ELSE r - 2)
                         ELSE IF r = 0 THEN 0
                         ELSE IF r <= 2 THEN 1 ELSE r - 1)

\* The sum of the steps of the spike months up to month t.
StepsUpTo(kind, spikes, t) ==
    LET past == SortedSeqOf({p \in spikes : p <= t})
    IN  Sum([k \in DOMAIN past |-> StepAt(kind, spikes, past[k])])

RECURSIVE Pow2(_)
Pow2(n) == IF n = 0 THEN 1 ELSE 2 * Pow2(n - 1)

\* The profile of the convergence variable over the months 0..T-1; state s
\* holds Level(s) times the profile.
\*   stair, ramp, shelf: 1 plus the steps taken so far
\*   crash: 8 before the first spike month, 2 in it, 1 after it
\*   flip:  1 before the first spike month, -5 from it on
Profile(kind, spikes, t) ==
    CASE kind \in {"stair", "ramp", "shelf"} -> 1 + StepsUpTo(kind, spikes, t)
      [] kind = "crash" ->
            IF spikes = {} \/ t < SetMin(spikes) THEN 8
            ELSE IF t = SetMin(spikes) THEN 2 ELSE 1
      [] kind = "flip" ->
            IF spikes = {} \/ t < SetMin(spikes) THEN 1 ELSE -5

\* The vegetable price index doubles in every spike month.
VegProfile(spikes, t) == Pow2(Cardinality({p \in spikes : p <= t}))

MonthIdx(t) == StartYear * 12 + (StartMonth - 1) + t

\* The day of the month of state s's observation of month t, when the sheet
\* has a date column.
DayOf(style, s, t) ==
    LET y == MonthIdx(t) \div 12
        m == (MonthIdx(t) % 12) + 1
    IN  CASE style = "first" -> 1
          [] style = "mid"   -> 15
          [] style = "last"  -> DaysInMonth(y, m)
          [] style = "mixed" -> IF s % 2 = 1 THEN 10 ELSE 20

\* The level of state s relative to the national profile: 1, 2 or 3.
Level(s) == (s % 3) + 1

\* The move of state s in the first spike month of a "wobble" panel: up for
\* half of the states of every level, down for the other half, so that the
\* move is uncorrelated with the level.
Tilt(s) == IF s % 6 < 3 THEN 1 ELSE -1

\* The convergence variable of state s in month t: the state's level times
\* the profile, or, in a "wobble" panel, the level plus the tilt from the
\* first spike month on.
RelValue(inp, s, t) ==
    IF inp.kind = "wobble"
    THEN Level(s) + (IF inp.spikes # {} /\ t >= SetMin(inp.spikes) THEN Tilt(s) ELSE 0)
    ELSE Level(s) * Profile(inp.kind, inp.spikes, t)

\* The cell of column col in the row of state s and month t. The value of
\* the convergence variable of state 1 in month inp.gap is missing.
Cell(inp, s, t, col) ==
    LET y == MonthIdx(t) \div 12
        m == (MonthIdx(t) % 12) + 1
    IN  CASE col \in {"state", "region"} -> s
          [] col = "year"  -> y
          [] col = "month" -> m
          [] col = "date"  -> MkDate(y, m, DayOf(inp.style, s, t))
          [] col \in {"relc", "price"} ->
                IF s = 1 /\ t = inp.gap THEN NaN
                ELSE Val(RelValue(inp, s, t))
          [] col = "veg_price" -> Val(Level(s) * VegProfile(inp.spikes, t))
          [] OTHER -> NaN

\* The sheet's rows in file order: month by month, state by state.
SheetRows(inp) ==
    [i \in 1..(inp.K * inp.T) |->
        [s |-> ((i - 1) % inp.K) + 1, t |-> (i - 1) \div inp.K]]

\* ---------------------------------------------------------------- the state

VARIABLES
    inp,             \* the run's inputs: the workbook, EXPLICIT_SHOCKS, data/clean_panel.csv
    fs,              \* the files of the two output directories: directory -> name -> content
    running,         \* the script being run: "none", "event_study", "robustness", "app"
    pc,              \* the place the running script has reached
    result,          \* per script: "not run", "running", "completed", or the exception that ended it
    panel,           \* event_study.py: panel, sorted by state and date
    shock_dates,     \* event_study.py: shock_dates
    event_df,        \* event_study.py: event_df (with lag_rel and d_rel once computed)
    sigma_path,      \* event_study.py: sigma_path
    beta_path,       \* event_study.py: beta_path
    es_outdir,       \* event_study.py: the directory OUTDIR resolves to ("" until step 8)
    rb_shock_dates,  \* robustness_checks.py: shock_dates
    rb_event_df,     \* robustness_checks.py: event_df
    rb_rows,         \* robustness_checks.py: outdf
    app_tables,      \* streamlit_app.py: beta_df, sigma_df, robust_df, shock_df
    app_charts       \* streamlit_app.py: the charts handed to st.plotly_chart

vars == <<inp, fs, running, pc, result, panel, shock_dates, event_df, sigma_path,
          beta_path, es_outdir, rb_shock_dates, rb_event_df, rb_rows, app_tables, app_charts>>

es_vars == <<panel, shock_dates, event_df, sigma_path, beta_path, es_outdir>>

rb_vars == <<rb_shock_dates, rb_event_df, rb_rows>>

app_vars == <<app_tables, app_charts>>

None == ""

\* ------------------------------------------------- event_study.py: reading

InCols(c, cols) == \E j \in DOMAIN cols : cols[j] = c

\* next((c for c in cands if c in cols), None)
FirstOf(cands, cols) ==
    LET hits == {i \in DOMAIN cands : InCols(cands[i], cols)}
    IN  IF hits = {} THEN None ELSE cands[SetMin(hits)]

\* next over the columns, in column order, of those that satisfy P
FirstCol(cols, P(_)) ==
    LET hits == {j \in DOMAIN cols : P(cols[j])}
    IN  IF hits = {} THEN None ELSE cols[SetMin(hits)]

detect_columns(cols) ==
    LET pri == FirstOf(REL_PRIORITY, cols)
    IN  [state_col |-> FirstOf(StateNames, cols),
         year_col  |-> IF InCols("year", cols) THEN "year" ELSE None,
         month_col |-> IF InCols("month", cols) THEN "month" ELSE None,
         date_col  |-> IF InCols("date", cols) THEN "date" ELSE None,
         rel_col   |-> IF pri # None THEN pri
                       ELSE FirstCol(cols, LAMBDA c : c \in RelPrefixed /\ c \in NumericCols),
         veg_cols  |-> SelectSeq(cols, LAMBDA c : c \in VegNamed)]

\* df[c].nunique() of a column of dtype object: the states' column holds one
\* name per state, any other text column one value.
NUnique(in, c) == IF c \in {"state", "region"} THEN in.K ELSE 1

\* The state column: the detected one, else the first text column with 28 to
\* 40 distinct values.
StateCol(in) ==
    LET d == detect_columns(in.cols)
    IN  IF d.state_col # None THEN d.state_col
        ELSE FirstCol(in.cols,
                      LAMBDA c : c \notin NumericCols /\ c # "date"
                                 /\ 28 <= NUnique(in, c) /\ NUnique(in, c) <= 40)

\* The convergence variable: the detected one, else the first numeric column
\* that is not the state, date, year or month column.
RelCol(in) ==
    LET d == detect_columns(in.cols)
    IN  IF d.rel_col # None THEN d.rel_col
        ELSE FirstCol(in.cols,
                      LAMBDA c : c \notin {StateCol(in), "date", d.year_col, d.month_col}
                                 /\ c \in NumericCols)

\* build_date: the first day of the row's year and month.
build_date(y, m) == MkDate(y, m, 1)

\* The exception steps 1 to 3 of main() end with, "" when they all pass.
ReadError(in) ==
    LET d == detect_columns(in.cols)
    IN  IF ~in.fileExists THEN "FileNotFoundError: Cannot find input"
        ELSE IF ~in.sheetFound THEN "ValueError: Sheet not found"
        ELSE IF StateCol(in) = None THEN "ValueError: Couldn't detect the state column"
        ELSE IF d.date_col = None /\ (d.year_col = None \/ d.month_col = None)
            THEN "ValueError: Need either a 'date' column or ('year' + 'month') columns"
        ELSE IF RelCol(in) = None
            THEN "ValueError: No numeric series found for convergence analysis"
        ELSE ""

\* panel = df[keep_cols].dropna(subset=[state, date, rel]).sort_values([state, date])
\* A row is [state, date, rel, veg]; veg is the first vegetables column, NaN
\* when the sheet has none.
BuildPanel(in) ==
    LET d    == detect_columns(in.cols)
        sc   == StateCol(in)
        rc   == RelCol(in)
        raw  == SheetRows(in)
        rows == [i \in DOMAIN raw |->
                   LET s == raw[i].s
                       t == raw[i].t
                   IN  [state |-> Cell(in, s, t, sc),
                        date  |-> IF d.date_col = None
                                  THEN build_date(Cell(in, s, t, "year"),
                                                  Cell(in, s, t, "month"))
                                  ELSE Cell(in, s, t, "date"),
                        rel   |-> Cell(in, s, t, rc),
                        veg   |-> IF d.veg_cols = <<>> THEN NaN
                                  ELSE Cell(in, s, t, d.veg_cols[1])]]
        kept == SelectSeq(rows, LAMBDA r : ~IsNaN(r.rel))
        flat == [i \in DOMAIN kept |-> [kept[i] EXCEPT !.rel = kept[i].rel[1]]]
    IN  StableSortBy(StableSortBy(flat, LAMBDA r : r.date), LAMBDA r : r.state)

\* ------------------------------------------ event_study.py: shock detection

\* The index of the row a groupby(...).shift(1) or .diff() pairs row i with:
\* the last row before i, in frame order, of the same group; 0 when row i is
\* the first of its group.
PrevInGroup(df, i, SameGroup(_, _)) ==
    IF i > 1 /\ SameGroup(df[i - 1], df[i]) THEN i - 1
    ELSE LET js == {j \in 1..(i - 1) : SameGroup(df[j], df[i])}
         IN  IF js = {} THEN 0 ELSE CHOOSE j \in js : \A k \in js : k <= j

\* nat_veg = panel.groupby("date")[chosen].mean(); veg_mom = nat_veg.pct_change()
\* One entry per date of the panel, in date order; the first is NaN. The
\* price index is positive, so no division by zero arises.
VegMom(pnl) ==
    LET dates == SortedSeqOf({pnl[i].date : i \in DOMAIN pnl})
        nat   == [k \in DOMAIN dates |->
                    LET g == SelectSeq(pnl, LAMBDA r : r.date = dates[k])
                    IN  Rat(Sum([i \in DOMAIN g |-> g[i].veg[1]]), Len(g))]
    IN  [k \in DOMAIN dates |->
            [date |-> dates[k],
             v    |-> IF k = 1 THEN NaN
                      ELSE Val(Rat(nat[k][1] * nat[k - 1][2] - nat[k - 1][1] * nat[k][2],
                                   nat[k - 1][1] * nat[k][2]))]]

\* panel["d_rel"] = panel.groupby(state)[rel].diff()
\* abs_change = panel.groupby("date")["d_rel"].apply(nanmean of the absolute values)
\* The mean of no value is NaN.
AbsChange(pnl) ==
    LET dates == SortedSeqOf({pnl[i].date : i \in DOMAIN pnl})
        d_rel == [i \in DOMAIN pnl |->
                    LET j == PrevInGroup(pnl, i, LAMBDA a, b : a.state = b.state)
                    IN  IF j = 0 THEN NaN ELSE Val(pnl[i].rel - pnl[j].rel)]
    IN  [k \in DOMAIN dates |->
            LET idx == {i \in DOMAIN pnl : pnl[i].date = dates[k] /\ ~IsNaN(d_rel[i])}
                seq == SortedSeqOf(idx)
            IN  [date |-> dates[k],
                 v    |-> IF idx = {} THEN NaN
                          ELSE Val(Rat(Sum([n \in DOMAIN seq |-> Abs(d_rel[seq[n]][1])]),
                                       Len(seq)))]]

LCM(a, b) == (a \div GCD(a, b)) * b

RECURSIVE LcmDen(_, _, _)
\* The least common multiple of the denominators of series[lo..hi].
LcmDen(series, lo, hi) ==
    IF lo > hi THEN 1
    ELSE IF lo = hi THEN (IF IsNaN(series[lo].v) THEN 1 ELSE series[lo].v[1][2])
    ELSE LET mid == (lo + hi) \div 2
         IN  LCM(LcmDen(series, lo, mid), LcmDen(series, mid + 1, hi))

\* The series on one common denominator: entry k is [date, x], x the integer
\* numerator of the value (NaN stays NaN). Order and equality of the values
\* are order and equality of the numerators.
Scaled(series) ==
    LET L == LcmDen(series, 1, Len(series))
    IN  [k \in DOMAIN series |->
            [date |-> series[k].date,
             x    |-> IF IsNaN(series[k].v) THEN NaN
                      ELSE Val(series[k].v[1][1] * (L \div series[k].v[1][2]))]]

\* The squared deviations sum_i (N x_i - S)^2 of the values of have, divided
\* by d > 0: quot is the quotient and rem the remainder. The sum is formed
\* from the quotients and remainders of its terms, which keeps every
\* intermediate number small.
DevSquares(have, d) ==
    LET N    == Len(have)
        S    == Sum([i \in DOMAIN have |-> have[i].x[1]])
        sq   == [i \in DOMAIN have |-> (N * have[i].x[1] - S) * (N * have[i].x[1] - S)]
        rems == Sum([i \in DOMAIN sq |-> sq[i] % d])
    IN  [quot |-> Sum([i \in DOMAIN sq |-> sq[i] \div d]) + (rems \div d),
         rem  |-> rems % d]

\* The comparison taken as >= instead of >.
AboveThreshold_NonStrict(sc) ==
    LET have == SelectSeq(sc, LAMBDA e : ~IsNaN(e.x))
        N    == Len(have)
        S    == Sum([i \in DOMAIN have |-> have[i].x[1]])
        D    == ThreshDen * ThreshDen * (N - 1)
        Q    == DevSquares(have, D)
    IN  SelectSeq(have,
            LAMBDA e : /\ N >= 2
                       /\ N * e.x[1] - S >= 0
                       /\ LET sq  == (N * e.x[1] - S) * (N * e.x[1] - S)
                              bar == ThreshNum * ThreshNum * Q.quot
                                        + (ThreshNum * ThreshNum * Q.rem) \div D
                          IN  \/ sq > bar
                              \/ sq = bar /\ (ThreshNum * ThreshNum * Q.rem) % D = 0)

\* series > series.mean() + THRESH_STD_MULTIPLIER * series.std(), entry by entry.
\* mean and std skip NaN, std is the sample std (ddof = 1) and NaN for fewer
\* than two values, and a comparison with NaN is False. With N values x_i of
\* sum S, a/b the multiplier, D = b^2 (N - 1) and Q = sum_i (N x_i - S)^2:
\*     x > mean + (a/b) std  <=>  N x - S > 0  and  D (N x - S)^2 > a^2 Q
\* and, (N x - S)^2 being an integer, the latter is
\*     (N x - S)^2 > floor(a^2 Q / D) = a^2 (Q div D) + (a^2 (Q mod D)) div D.
AboveThreshold(sc) ==
    LET have == SelectSeq(sc, LAMBDA e : ~IsNaN(e.x))
        N    == Len(have)
        S    == Sum([i \in DOMAIN have |-> have[i].x[1]])
        D    == ThreshDen * ThreshDen * (N - 1)
        Q    == DevSquares(have, D)
    IN  SelectSeq(have,
            LAMBDA e : /\ N >= 2
                       /\ N * e.x[1] - S > 0
                       /\ (N * e.x[1] - S) * (N * e.x[1] - S)
                             > ThreshNum * ThreshNum * Q.quot
                                  + (ThreshNum * ThreshNum * Q.rem) \div D)

RECURSIVE Perms(_)
\* The orders the elements of S can be listed in.
Perms(S) ==
    IF S = {} THEN {<<>>}
    ELSE UNION {{<<x>> \o p : p \in Perms(S \ {x})} : x \in S}

RECURSIVE Orders(_, _, _)
\* The sequences made of an order of groups[lo], then one of groups[lo + 1],
\* ..., then one of groups[hi].
Orders(groups, lo, hi) ==
    IF lo > hi THEN {<<>>}
    ELSE IF lo = hi THEN Perms(groups[lo])
    ELSE LET mid == (lo + hi) \div 2
         IN  {a \o b : a \in Orders(groups, lo, mid), b \in Orders(groups, mid + 1, hi)}

\* series.sort_values(ascending=False).head(limit).index: the dates of the
\* first limit entries of the series sorted by descending value. The sort is
\* the default one (kind="quicksort"), which is not stable: it does not
\* promise the order of equal values, so every order of them is a result,
\* and with it every choice of the equal values kept at the cut.
TopRanked(cands, limit) ==
    LET vals   == SortedSeqOf({-cands[i].x[1] : i \in DOMAIN cands})
        groups == [k \in DOMAIN vals |-> {cands[i] : i \in {j \in DOMAIN cands : -cands[j].x[1] = vals[k]}}]
    IN  {SubSeq(o, 1, limit) : o \in Orders(groups, 1, Len(vals))}

\* Step 4 of main() in auto-detect mode: the possible values of shock_dates.
DetectShocks(pnl, veg_cols) ==
    LET series == IF veg_cols # <<>> THEN VegMom(pnl) ELSE AbsChange(pnl)
        cands  == AboveThreshold(Scaled(series))
    IN  IF Len(cands) > MAX_SHOCKS
        THEN {[i \in DOMAIN top |-> top[i].date] : top \in TopRanked(cands, MAX_SHOCKS)}
        ELSE {[i \in DOMAIN cands |-> cands[i].date]}

\* -------------------------------------------- event windows (both scripts)

\* A window cut by calendar month instead of by date: every row at most
\* WINDOW months from the shock month, whatever its day.
WindowRows_ByMonth(df, sdate) ==
    LET sub == SelectSeq(df, LAMBDA r : /\ robust_month_diff(r.date, sdate) >= -WINDOW
                                        /\ robust_month_diff(r.date, sdate) <= WINDOW)
    IN  [i \in DOMAIN sub |->
            [state      |-> sub[i].state,
             date       |-> sub[i].date,
             rel        |-> sub[i].rel,
             shock_date |-> sdate,
             event_time |-> robust_month_diff(sub[i].date, sdate)]]

\* sub = df.loc[(date >= sdate - 6 months) & (date <= sdate + 6 months)] with
\* its shock_date and event_time columns.
WindowRows(df, sdate) ==
    LET lo  == DateOffset(sdate, -WINDOW)
        hi  == DateOffset(sdate, WINDOW)
        sub == SelectSeq(df, LAMBDA r : r.date >= lo /\ r.date <= hi)
    IN  [i \in DOMAIN sub |->
            [state      |-> sub[i].state,
             date       |-> sub[i].date,
             rel        |-> sub[i].rel,
             shock_date |-> sdate,
             event_time |-> robust_month_diff(sub[i].date, sdate)]]

\* pd.concat(frames): the windows of the shock dates, in their order (a
\* shock date with an empty window contributes no frame).
ConcatFrames(df, sds) ==
    Flatten([k \in DOMAIN sds |-> WindowRows(df, sds[k])], 1, Len(sds))

\* frames: the shock dates whose window holds at least one row.
HasWindow(df, sdate) ==
    \E i \in DOMAIN df : /\ df[i].date >= DateOffset(sdate, -WINDOW)
                         /\ df[i].date <= DateOffset(sdate, WINDOW)

\* .sort_values([state, "shock_date", "date"]).reset_index(drop=True)
SortEventDf(rows) ==
    StableSortBy(StableSortBy(StableSortBy(rows, LAMBDA r : r.date),
                              LAMBDA r : r.shock_date),
                 LAMBDA r : r.state)

BuildEventDf(df, sds) == SortEventDf(ConcatFrames(df, sds))

\* shift(1) and diff() on the whole frame, without the groupby: the lag of a
\* row is the value of the row above it.
WithLags_Ungrouped(edf) ==
    [i \in DOMAIN edf |->
        [state      |-> edf[i].state,
         date       |-> edf[i].date,
         rel        |-> edf[i].rel,
         shock_date |-> edf[i].shock_date,
         event_time |-> edf[i].event_time,
         lag_rel    |-> IF i = 1 THEN NaN ELSE Val(edf[i - 1].rel),
         d_rel      |-> IF i = 1 THEN NaN ELSE Val(edf[i].rel - edf[i - 1].rel)]]

\* The lags with the first row of every group filled instead of missing: its
\* lag_rel is its own value and its d_rel is 0.
WithLags_Filled(edf) ==
    [i \in DOMAIN edf |->
        LET j == PrevInGroup(edf, i,
                     LAMBDA a, b : a.state = b.state /\ a.shock_date = b.shock_date)
        IN  [state      |-> edf[i].state,
             date       |-> edf[i].date,
             rel        |-> edf[i].rel,
             shock_date |-> edf[i].shock_date,
             event_time |-> edf[i].event_time,
             lag_rel    |-> IF j = 0 THEN Val(edf[i].rel) ELSE Val(edf[j].rel),
             d_rel      |-> IF j = 0 THEN Val(0) ELSE Val(edf[i].rel - edf[j].rel)]]

\* lag_rel = groupby([state, shock_date])[rel].shift(1)
\* d_rel   = groupby([state, shock_date])[rel].diff()
WithLags(edf) ==
    [i \in DOMAIN edf |->
        LET j == PrevInGroup(edf, i,
                     LAMBDA a, b : a.state = b.state /\ a.shock_date = b.shock_date)
        IN  [state      |-> edf[i].state,
             date       |-> edf[i].date,
             rel        |-> edf[i].rel,
             shock_date |-> edf[i].shock_date,
             event_time |-> edf[i].event_time,
             lag_rel    |-> IF j = 0 THEN NaN ELSE Val(edf[j].rel),
             d_rel      |-> IF j = 0 THEN NaN ELSE Val(edf[i].rel - edf[j].rel)]]

EventTimes(edf) == SortedSeqOf({edf[i].event_time : i \in DOMAIN edf})

\* g.dropna(subset=["lag_rel", "d_rel"]) of the rows of event time tau
UsableRows(edf, tau) ==
    SelectSeq(edf, LAMBDA r : r.event_time = tau /\ ~IsNaN(r.lag_rel) /\ ~IsNaN(r.d_rel))

\* ------------------------------------------------------------- regressions

\* The coefficient of lag_rel in sm.OLS(d_rel, sm.add_constant(lag_rel)).fit(),
\* exactly. add_constant adds no constant when lag_rel is itself a non-zero
\* constant (has_constant="skip"): the fit is then through the origin. When
\* lag_rel is zero everywhere its coefficient in the pseudo-inverse solution
\* is zero.
OlsSlope(gg) ==
    LET n   == Len(gg)
        Sx  == Sum([i \in DOMAIN gg |-> gg[i].lag_rel[1]])
        Sy  == Sum([i \in DOMAIN gg |-> gg[i].d_rel[1]])
        Sxy == Sum([i \in DOMAIN gg |-> gg[i].lag_rel[1] * gg[i].d_rel[1]])
        Sxx == Sum([i \in DOMAIN gg |-> gg[i].lag_rel[1] * gg[i].lag_rel[1]])
        constant == \A i \in DOMAIN gg : gg[i].lag_rel = gg[1].lag_rel
    IN  IF constant /\ gg[1].lag_rel[1] # 0 THEN Rat(Sxy, Sxx)
        ELSE IF constant THEN RatZero
        ELSE Rat(n * Sxy - Sx * Sy, n * Sxx - Sx * Sx)

\* The double model.params[1] of the fit on gg. A non-zero exact slope q is
\* returned as q. When d_rel is zero in every row the fit returns 0.0. An
\* exact slope of zero on other data is returned as 0.0 or as a rounding
\* residue of either sign, smaller than 2^-54 in size: which one depends on
\* the linear-algebra build. tiny is the residue's sign (-1, 0, 1).
Residues == {-1, 0, 1}

FitBeta(gg, residue) ==
    LET q == OlsSlope(gg)
    IN  [q    |-> q,
         tiny |-> IF q = RatZero /\ (\E i \in DOMAIN gg : gg[i].d_rel[1] # 0)
                  THEN residue ELSE 0]

\* A double whose value the model does not compute.
ANumber == <<"number">>

\* -1 < beta < 0 on that double
InOpenUnit(beta) ==
    \/ RatLess(<<-1, 1>>, beta.q) /\ RatLess(beta.q, RatZero)
    \/ beta.q = RatZero /\ beta.tiny < 0

\* hl = np.log(0.5) / np.log(1 + beta) when -1 < beta < 0, else NaN. For a
\* residue, 1 + beta rounds to 1.0, np.log gives 0.0 and the division gives
\* -inf with a warning, not an exception. Otherwise the value is
\* ln(0.5) / ln(one_plus_beta), kept by its argument.
HalfLife(beta) ==
    IF ~InOpenUnit(beta) THEN NaN
    ELSE IF beta.q = RatZero
        THEN Val([kind |-> "-inf", one_plus_beta |-> <<1, 1>>])
        ELSE Val([kind |-> "ln(0.5)/ln(1+beta)", one_plus_beta |-> RatAdd(<<1, 1>>, beta.q)])

\* Whether a half-life is a positive number: ln(0.5) < 0, and ln(a) < 0 just
\* when 0 < a < 1.
HalfLifePositive(hl) ==
    /\ hl.kind = "ln(0.5)/ln(1+beta)"
    /\ RatLess(RatZero, hl.one_plus_beta)
    /\ RatLess(hl.one_plus_beta, <<1, 1>>)

\* "if len(gg) >= 30"
EnoughObs(n) == n >= MIN_OBS

RECURSIVE BetaRows(_, _, _, _)
\* Step 7 of main(): one row per event time with at least 30 usable rows.
\* se is the HC1 standard error, kept as ANumber or NaN.
BetaRows(edf, taus, k, residue) ==
    IF k > Len(taus) THEN <<>>
    ELSE LET gg   == UsableRows(edf, taus[k])
             beta == FitBeta(gg, residue)
             rest == BetaRows(edf, taus, k + 1, residue)
         IN  IF EnoughObs(Len(gg))
             THEN <<[event_time       |-> taus[k],
                     beta             |-> Val(beta),
                     se               |-> ANumber,
                     half_life_months |-> HalfLife(beta),
                     n                |-> Len(gg)]>> \o rest
             ELSE rest

\* np.nanstd(x, ddof=1) squared: the sample variance, NaN for fewer than two rows.
SampleVar(xs) ==
    LET n == Len(xs)
    IN  IF n < 2 THEN NaN
        ELSE Val(Rat(n * Sum([i \in DOMAIN xs |-> xs[i] * xs[i]]) - Sum(xs) * Sum(xs),
                     n * (n - 1)))

\* Step 6 of main(): one row per event time. avg_sigma is the mean over the
\* shocks of the cross-state std at that event time, NaN when no shock has
\* two rows there; it is kept as the variances whose roots are averaged.
SigmaPath(edf) ==
    LET taus == EventTimes(edf)
    IN  [k \in DOMAIN taus |->
            LET g    == SelectSeq(edf, LAMBDA r : r.event_time = taus[k])
                sds  == SortedSeqOf({g[i].shock_date : i \in DOMAIN g})
                vs   == [n \in DOMAIN sds |->
                           LET h == SelectSeq(g, LAMBDA r : r.shock_date = sds[n])
                           IN  SampleVar([i \in DOMAIN h |-> h[i].rel])]
                have == SelectSeq(vs, LAMBDA v : ~IsNaN(v))
            IN  [event_time |-> taus[k],
                 avg_sigma  |-> IF have = <<>> THEN NaN ELSE Val(have)]]

\* ------------------------------------------------------------------- files

\* The two directories result files live in, as seen from the repository
\* root. event_study.py writes to OUTDIR = "event_study_outputs" below its
\* working directory; robustness_checks.py and streamlit_app.py use
\* "output/event_study_outputs". The two are one directory when
\* event_study.py is run from output/.
LocalOut == "event_study_outputs"

SharedOut == "output/event_study_outputs"

Dirs == {LocalOut, SharedOut}

CsvFiles == {"sigma_convergence_event_path.csv", "beta_convergence_event_path.csv",
             "shock_dates_used.csv", "robust_se_by_event_time.csv"}

FileNames == CsvFiles \cup {"summary.txt", "sigma_convergence_event_path.png",
                            "beta_convergence_event_path.png",
                            "half_life_by_event_time.png"}

Absent == [exists |-> FALSE, cols |-> <<>>, rows |-> <<>>]

File(cols, rows) == [exists |-> TRUE, cols |-> cols, rows |-> rows]

\* OUTDIR resolved against the working directory event_study.py runs in.
ResolveOutdir(cwd) == IF cwd = "output" THEN SharedOut ELSE LocalOut

WorkingDirs == {".", "output"}

\* -------------------------------------------------- event_study.py: main()

Fail(script, exception) ==
    /\ result' = [result EXCEPT ![script] = exception]
    /\ running' = "none"
    /\ pc' = "-"

Finish(script) ==
    /\ result' = [result EXCEPT ![script] = "completed"]
    /\ running' = "none"
    /\ pc' = "-"

Goto(label) == pc' = label /\ UNCHANGED <<running, result>>

StartEventStudy ==
    /\ running = "none"
    /\ result.event_study = "not run"
    /\ running' = "event_study"
    /\ pc' = "read"
    /\ result' = [result EXCEPT !.event_study = "running"]
    /\ panel' = <<>>
    /\ shock_dates' = <<>>
    /\ event_df' = <<>>
    /\ sigma_path' = <<>>
    /\ beta_path' = <<>>
    /\ es_outdir' = None
    /\ UNCHANGED <<inp, fs, rb_vars, app_vars>>

\* Steps 1 to 3: read the sheet, find the columns, build the dates, build panel.
EsRead ==
    /\ running = "event_study" /\ pc = "read"
    /\ IF ReadError(inp) # ""
       THEN Fail("event_study", ReadError(inp)) /\ UNCHANGED panel
       ELSE Goto("detect") /\ panel' = BuildPanel(inp)
    /\ UNCHANGED <<inp, fs, shock_dates, event_df, sigma_path, beta_path, es_outdir, rb_vars, app_vars>>

\* The exception "if not shock_dates" ends with. With EXPLICIT_SHOCKS set,
\* shock_dates is a pandas Series, whose truth value is a ValueError; in
\* auto-detect mode it is a list, empty when no month was detected.
ShockGuard(explicit, sds) ==
    IF explicit # <<>> THEN "ValueError: The truth value of a Series is ambiguous"
    ELSE IF sds = <<>> THEN "RuntimeError: No shock months detected"
    ELSE ""

\* Step 4 and the guard after it.
EsDetect ==
    /\ running = "event_study" /\ pc = "detect"
    /\ \E sds \in (IF inp.explicit # <<>>
                   THEN {[i \in DOMAIN inp.explicit |-> ParseYearMonth(inp.explicit[i])]}
                   ELSE DetectShocks(panel, detect_columns(inp.cols).veg_cols)) :
          /\ shock_dates' = sds
          /\ IF ShockGuard(inp.explicit, sds) # ""
             THEN Fail("event_study", ShockGuard(inp.explicit, sds))
             ELSE Goto("windows")
    /\ UNCHANGED <<inp, fs, panel, event_df, sigma_path, beta_path, es_outdir, rb_vars, app_vars>>

\* Step 5: the event windows.
EsWindows ==
    /\ running = "event_study" /\ pc = "windows"
    /\ IF \A k \in DOMAIN shock_dates : ~HasWindow(panel, shock_dates[k])
       THEN Fail("event_study", "RuntimeError: No event windows constructed")
            /\ UNCHANGED event_df
       ELSE Goto("sigma") /\ event_df' = BuildEventDf(panel, shock_dates)
    /\ UNCHANGED <<inp, fs, panel, shock_dates, sigma_path, beta_path, es_outdir, rb_vars, app_vars>>

\* Step 6 saving its table at once, before step 7: the sigma file is written
\* to event_study_outputs as soon as the sigma path is computed.
EsSigma_WritesEarly ==
    /\ running = "event_study" /\ pc = "sigma"
    /\ sigma_path' = SigmaPath(event_df)
    /\ fs' = [fs EXCEPT ![LocalOut]["sigma_convergence_event_path.csv"] =
                 File(<<"event_time", "avg_sigma">>, SigmaPath(event_df))]
    /\ Goto("beta")
    /\ UNCHANGED <<inp, panel, shock_dates, event_df, beta_path, es_outdir, rb_vars, app_vars>>

\* Step 6: the sigma path.
EsSigma ==
    /\ running = "event_study" /\ pc = "sigma"
    /\ sigma_path' = SigmaPath(event_df)
    /\ Goto("beta")
    /\ UNCHANGED <<inp, fs, panel, shock_dates, event_df, beta_path, es_outdir, rb_vars, app_vars>>

\* Step 7: lags, one regression per event time, and
\* beta_path = pd.DataFrame(rows).sort_values("event_time"), which raises
\* KeyError when rows is empty (the frame then has no column).
EsBeta ==
    /\ running = "event_study" /\ pc = "beta"
    /\ \E residue \in Residues :
         LET edf  == WithLags(event_df)
             rows == BetaRows(edf, EventTimes(edf), 1, residue)
         IN  /\ event_df' = edf
             /\ IF rows = <<>>
                THEN Fail("event_study", "KeyError: 'event_time'") /\ UNCHANGED beta_path
                ELSE Goto("save")
                     /\ beta_path' = StableSortBy(rows, LAMBDA r : r.event_time)
    /\ UNCHANGED <<inp, fs, panel, shock_dates, sigma_path, es_outdir, rb_vars, app_vars>>

ShockCsv(sds) ==
    File(<<"shock_date">>, [i \in DOMAIN sds |-> [shock_date |-> StrfYearMonth(sds[i])]])

\* Step 8: the result files. OUTDIR is relative: the directory written is
\* fixed by the working directory of the run, which this step is the first
\* to use.
EsSave ==
    /\ running = "event_study" /\ pc = "save"
    /\ \E cwd \in WorkingDirs :
         /\ es_outdir' = ResolveOutdir(cwd)
         /\ fs' = [fs EXCEPT ![ResolveOutdir(cwd)] =
                  [@ EXCEPT
                     !["sigma_convergence_event_path.csv"] =
                         File(<<"event_time", "avg_sigma">>, sigma_path),
                     !["beta_convergence_event_path.csv"] =
                         File(<<"event_time", "beta", "se", "half_life_months", "n">>,
                              beta_path),
                     !["shock_dates_used.csv"] = ShockCsv(shock_dates),
                     !["summary.txt"] =
                         File(<<>>, <<[states     |-> Cardinality({event_df[i].state :
                                                          i \in DOMAIN event_df}),
                                       num_shocks |-> Len(shock_dates),
                                       window     |-> WINDOW]>>)]]
    /\ Goto("plots")
    /\ UNCHANGED <<inp, panel, shock_dates, event_df, sigma_path, beta_path,
                   rb_vars, app_vars>>

\* Step 9: the charts; the half-life chart only when some half-life is not NaN.
EsPlots ==
    /\ running = "event_study" /\ pc = "plots"
    /\ fs' = [fs EXCEPT ![es_outdir] =
                [@ EXCEPT
                   !["sigma_convergence_event_path.png"] = File(<<>>, <<>>),
                   !["beta_convergence_event_path.png"] = File(<<>>, <<>>),
                   !["half_life_by_event_time.png"] =
                       IF \E i \in DOMAIN beta_path :
                              ~IsNaN(beta_path[i].half_life_months)
                       THEN File(<<>>, <<>>) ELSE @]]
    /\ Finish("event_study")
    /\ UNCHANGED <<inp, es_vars, rb_vars, app_vars>>

\* --------------------------------------------------- robustness_checks.py

\* df = pd.read_csv("data/clean_panel.csv", parse_dates=["Date"]): the panel's
\* observations without the missing ones, in file order, columns State, Date
\* and relc. The dates are the sheet's (the first of the month when the sheet
\* has year and month columns).
CleanPanel(in) ==
    LET raw  == SheetRows(in)
        rows == [i \in DOMAIN raw |->
                   LET s == raw[i].s
                       t == raw[i].t
                   IN  [state |-> s,
                        date  |-> IF InCols("date", in.cols) THEN Cell(in, s, t, "date")
                                  ELSE build_date(Cell(in, s, t, "year"),
                                                  Cell(in, s, t, "month")),
                        rel   |-> Cell(in, s, t, "relc")]]
        kept == SelectSeq(rows, LAMBDA r : ~IsNaN(r.rel))
    IN  [i \in DOMAIN kept |-> [kept[i] EXCEPT !.rel = kept[i].rel[1]]]

RECURSIVE Unique(_)
\* Series.unique(): the distinct values in order of first appearance.
Unique(seq) ==
    IF seq = <<>> THEN <<>>
    ELSE LET init == Unique(SubSeq(seq, 1, Len(seq) - 1))
             last == seq[Len(seq)]
         IN  IF \E i \in DOMAIN init : init[i] = last THEN init ELSE Append(init, last)

\* shocks["shock_date"] = pd.to_datetime(shocks["shock_date"], format="%Y-%m")
\* shock_dates = shocks["shock_date"].unique().tolist()
ReadShockDates(file) ==
    Unique([i \in DOMAIN file.rows |-> ParseYearMonth(file.rows[i].shock_date)])

RECURSIVE RobustRows(_, _, _, _)
\* One row per event time: NaN estimates below 30 usable rows, else the three
\* fits. The three fits differ in the covariance only: their coefficient is
\* the same, and their standard errors are kept as ANumber.
RobustRows(edf, taus, k, residue) ==
    IF k > Len(taus) THEN <<>>
    ELSE LET gg   == UsableRows(edf, taus[k])
             n    == Len(gg)
             beta == FitBeta(gg, residue)
             est  == IF ~EnoughObs(n) THEN NaN ELSE Val(beta)
             se   == IF ~EnoughObs(n) THEN NaN ELSE ANumber
         IN  <<[event_time   |-> taus[k], n_obs |-> n,
                beta_hc1     |-> est, se_hc1     |-> se,
                beta_cluster |-> est, se_cluster |-> se,
                beta_hac     |-> est, se_hac     |-> se]>>
             \o RobustRows(edf, taus, k + 1, residue)

RobustCols == <<"event_time", "n_obs", "beta_hc1", "se_hc1", "beta_cluster",
                "se_cluster", "beta_hac", "se_hac">>

StartRobustness ==
    /\ running = "none"
    /\ result.robustness = "not run"
    /\ running' = "robustness"
    /\ pc' = "load"
    /\ result' = [result EXCEPT !.robustness = "running"]
    /\ rb_shock_dates' = <<>>
    /\ rb_event_df' = <<>>
    /\ rb_rows' = <<>>
    /\ UNCHANGED <<inp, fs, es_vars, app_vars>>

\* Line 22: read data/clean_panel.csv.
RbLoad ==
    /\ running = "robustness" /\ pc = "load"
    /\ IF ~inp.cleanPanel
       THEN Fail("robustness", "FileNotFoundError: data/clean_panel.csv")
       ELSE Goto("shocks")
    /\ UNCHANGED <<inp, fs, es_vars, rb_vars, app_vars>>

\* The script without the check of lines 28 and 29: it goes on with no shock
\* date when the file is missing.
RbShocks_NoCheck ==
    /\ running = "robustness" /\ pc = "shocks"
    /\ Goto("windows")
    /\ rb_shock_dates' = IF fs[SharedOut]["shock_dates_used.csv"].exists
                         THEN ReadShockDates(fs[SharedOut]["shock_dates_used.csv"])
                         ELSE <<>>
    /\ UNCHANGED <<inp, fs, es_vars, rb_event_df, rb_rows, app_vars>>

\* Lines 27 to 33: read the shock dates event_study.py saved.
RbShocks ==
    /\ running = "robustness" /\ pc = "shocks"
    /\ IF ~fs[SharedOut]["shock_dates_used.csv"].exists
       THEN /\ Fail("robustness",
                    "FileNotFoundError: shock_dates_used.csv not found. Run event_study.py first.")
            /\ UNCHANGED rb_shock_dates
       ELSE /\ Goto("windows")
            /\ rb_shock_dates' = ReadShockDates(fs[SharedOut]["shock_dates_used.csv"])
    /\ UNCHANGED <<inp, fs, es_vars, rb_event_df, rb_rows, app_vars>>

\* Lines 36 to 52: the event windows and the lags. pd.concat of no frame
\* raises ValueError.
RbWindows ==
    /\ running = "robustness" /\ pc = "windows"
    /\ IF \A k \in DOMAIN rb_shock_dates : ~HasWindow(CleanPanel(inp), rb_shock_dates[k])
       THEN Fail("robustness", "ValueError: No objects to concatenate")
            /\ UNCHANGED rb_event_df
       ELSE Goto("regress")
            /\ rb_event_df' = WithLags(BuildEventDf(CleanPanel(inp), rb_shock_dates))
    /\ UNCHANGED <<inp, fs, es_vars, rb_shock_dates, rb_rows, app_vars>>

\* Lines 55 to 94: the regressions and outdf.
RbRegress ==
    /\ running = "robustness" /\ pc = "regress"
    /\ \E residue \in Residues :
         rb_rows' = StableSortBy(RobustRows(rb_event_df, EventTimes(rb_event_df), 1, residue),
                                 LAMBDA r : r.event_time)
    /\ Goto("save")
    /\ UNCHANGED <<inp, fs, es_vars, rb_shock_dates, rb_event_df, app_vars>>

\* Line 95: robust_se_by_event_time.csv.
RbSave ==
    /\ running = "robustness" /\ pc = "save"
    /\ fs' = [fs EXCEPT ![SharedOut]["robust_se_by_event_time.csv"] =
                 File(RobustCols, rb_rows)]
    /\ Finish("robustness")
    /\ UNCHANGED <<inp, es_vars, rb_vars, app_vars>>

\* -------------------------------------------------------- streamlit_app.py

EmptyFrame == [cols |-> <<>>, rows |-> <<>>]

\* load_csv: the file's table, an empty DataFrame when the file is missing.
load_csv(name) ==
    IF fs[SharedOut][name].exists
    THEN [cols |-> fs[SharedOut][name].cols, rows |-> fs[SharedOut][name].rows]
    ELSE EmptyFrame

\* DataFrame.empty
IsEmpty(t) == t.cols = <<>> \/ t.rows = <<>>

HasCols(t, names) == \A c \in names : InCols(c, t.cols)

\* The steps of tab 2 in order. Each is [when, needs, error, chart]: the
\* step runs when `when` holds, raises `error` unless `needs` holds, and
\* else hands `chart` to st.plotly_chart ("" = no chart).
Tab2Steps(t) ==
    << [when |-> ~IsEmpty(t.shock), needs |-> HasCols(t.shock, {"shock_date"}),
        error |-> "KeyError: 'shock_date'", chart |-> ""],
       [when |-> ~IsEmpty(t.beta), needs |-> HasCols(t.beta, {"event_time", "beta"}),
        error |-> "ValueError: not the name of a column in 'data_frame'",
        chart |-> "beta-convergence Path"],
       [when |-> ~IsEmpty(t.sigma), needs |-> HasCols(t.sigma, {"event_time", "avg_sigma"}),
        error |-> "ValueError: not the name of a column in 'data_frame'",
        chart |-> "sigma-convergence Path"],
       \* px.scatter(shock_df, x="shock_date", y="state", color="state")
       [when |-> ~IsEmpty(t.shock), needs |-> HasCols(t.shock, {"shock_date", "state"}),
        error |-> "ValueError: not the name of a column in 'data_frame'",
        chart |-> ""],
       \* st.plotly_chart(fig_state), outside the "if not shock_df.empty" block
       [when |-> TRUE, needs |-> ~IsEmpty(t.shock),
        error |-> "NameError: name 'fig_state' is not defined",
        chart |-> "State-wise Shock Dates"] >>

RECURSIVE RunSteps(_, _, _)
\* The outcome of the steps from k on: [error, charts].
RunSteps(steps, k, charts) ==
    IF k > Len(steps) THEN [error |-> "", charts |-> charts]
    ELSE IF ~steps[k].when THEN RunSteps(steps, k + 1, charts)
    ELSE IF ~steps[k].needs THEN [error |-> steps[k].error, charts |-> charts]
    ELSE RunSteps(steps, k + 1,
                  IF steps[k].chart = "" THEN charts ELSE charts \cup {steps[k].chart})

StartApp ==
    /\ running = "none"
    /\ result.app = "not run"
    /\ running' = "app"
    /\ pc' = "load"
    /\ result' = [result EXCEPT !.app = "running"]
    /\ app_tables' = [beta |-> EmptyFrame, sigma |-> EmptyFrame,
                      robust |-> EmptyFrame, shock |-> EmptyFrame]
    /\ app_charts' = {}
    /\ UNCHANGED <<inp, fs, es_vars, rb_vars>>

\* Lines 26 to 29.
AppLoad ==
    /\ running = "app" /\ pc = "load"
    /\ app_tables' = [beta   |-> load_csv("beta_convergence_event_path.csv"),
                      sigma  |-> load_csv("sigma_convergence_event_path.csv"),
                      robust |-> load_csv("robust_se_by_event_time.csv"),
                      shock  |-> load_csv("shock_dates_used.csv")]
    /\ Goto("render")
    /\ UNCHANGED <<inp, fs, es_vars, rb_vars, app_charts>>

SeColumns == [HC1 |-> {"beta_hc1", "se_hc1"}, Cluster |-> {"beta_cluster", "se_cluster"},
              HAC |-> {"beta_hac", "se_hac"}]

\* Tab 3 for the estimator chosen with the radio button: [error, charts].
Tab3(t, se_type, charts) ==
    IF IsEmpty(t.robust) THEN [error |-> "", charts |-> charts]
    ELSE IF ~HasCols(t.robust, {"event_time"} \cup SeColumns[se_type])
    THEN [error |-> "KeyError: robust_df column", charts |-> charts]
    ELSE [error |-> "", charts |-> charts \cup {"beta with SEs"}]

\* The body of the script after the loads: tab 2, then tab 3 (tabs 1, 4 and
\* 5 are static text). An exception ends the script run.
AppRender ==
    /\ running = "app" /\ pc = "render"
    /\ \E se_type \in DOMAIN SeColumns :
         LET tab2 == RunSteps(Tab2Steps(app_tables), 1, app_charts)
             out  == IF tab2.error # "" THEN tab2
                     ELSE Tab3(app_tables, se_type, tab2.charts)
         IN  /\ app_charts' = out.charts
             /\ IF out.error # "" THEN Fail("app", out.error) ELSE Finish("app")
    /\ UNCHANGED <<inp, fs, es_vars, rb_vars, app_tables>>

\* ------------------------------------------------------------------ inputs

\* An input: the workbook (whether the file and the sheet exist, the header,
\* K states over T months, the day-of-month style of its dates, the profile
\* kind, the spike months, the month state 1 is missing (-1 = none)),
\* EXPLICIT_SHOCKS as <<year, month>> texts, and whether
\* data/clean_panel.csv exists.
Input(cols, K, T, style, kind, spikes, gap) ==
    [fileExists |-> TRUE, sheetFound |-> TRUE, cleanPanel |-> TRUE, explicit |-> <<>>,
     cols |-> cols, K |-> K, T |-> T, style |-> style, kind |-> kind,
     spikes |-> spikes, gap |-> gap]

Styles == {"first", "mid", "last", "mixed"}

Kinds == {"stair", "crash", "flip"}

\* No spike, one spike in any month after the first, or two spikes two months apart.
SpikeSets(T) ==
    {{}} \cup {{p} : p \in 1..(T - 1)}
         \cup {{p, p + 2} : p \in {q \in {3, 4, 7} : q + 2 <= T - 1}}

\* Small panels on year and month columns: every shape of the shock series.
ShapeInputs ==
    UNION {{Input(L_ym, SmallStates, T, "first", "stair", sp, -1) : sp \in SpikeSets(T)} :
              T \in {ShortMonths, MidMonths, FullMonths}}

\* Small panels on a date column: every day-of-month style, with and without
\* a vegetables column.
DayInputs ==
    {Input(cols, SmallStates, FullMonths, style, "stair", {p}, -1) :
        cols \in {L_date, L_date_veg}, style \in Styles, p \in {1, 5, 7, FullMonths - 2}}

\* Small panels of every profile kind, with and without a missing observation.
KindInputs ==
    {Input(cols, SmallStates, MidMonths, "first", kind, {4}, gap) :
        cols \in {L_ym, L_ym_veg}, kind \in Kinds, gap \in {-1, 5}}

\* Workbooks main() cannot read, and a run without data/clean_panel.csv.
BrokenInputs ==
    LET ok == Input(L_ym, SmallStates, MidMonths, "first", "stair", {4}, -1)
    IN  {[ok EXCEPT !.fileExists = FALSE], [ok EXCEPT !.sheetFound = FALSE],
         [ok EXCEPT !.cleanPanel = FALSE]}
        \cup {[ok EXCEPT !.cols = c] : c \in {L_nostate, L_nodate, L_nonum, L_region}}

\* EXPLICIT_SHOCKS set by the user: a month of the panel, a month far from it.
ExplicitInputs ==
    LET ok == Input(L_ym, SmallStates, MidMonths, "first", "stair", {4}, -1)
    IN  {[ok EXCEPT !.explicit = e] :
            e \in {<< <<StartYear, StartMonth + 1>> >>, << <<StartYear - 20, 1>> >>}}

\* Big panels: enough states for regressions. The last one has its shock
\* WINDOW months after the first month, so that its window starts on the
\* first observation of every state.
BigInputs ==
    {Input(L_ym, BigStates, BigMonths, "first", kind, {p}, gap) :
        kind \in Kinds, p \in {1, 4}, gap \in {-1, 5}}
    \cup {Input(cols, BigStates, BigMonths, "first", "crash", {4}, gap) :
            cols \in {L_ym_veg, L_region}, gap \in {-1, 5}}
    \cup {Input(L_date, BigStates, BigMonths, style, "stair", {1}, -1) :
            style \in {"mid", "last"}}
    \cup {Input(L_ym, BigStates, BigMonths, "first", "wobble", {4}, -1)}
    \cup {Input(L_ym, BigStates, BigMonths, "first", "stair", {WINDOW}, -1)}

\* Long panels of one state with a spike every sixth month, one more spike
\* than MAX_SHOCKS, all of them candidates. In the "ramp" panel the lowest
\* spike is alone and two others are equal; in the "shelf" panel the three
\* lowest spikes are equal.
LongInputs ==
    {Input(L_ym, 1, LongMonths, "first", kind,
           {6 * k : k \in 1..(MAX_SHOCKS + 1)}, -1) : kind \in {"ramp", "shelf"}}

Inputs ==
    ShapeInputs \cup DayInputs \cup KindInputs \cup BrokenInputs \cup ExplicitInputs
        \cup BigInputs \cup LongInputs

\* ----------------------------------------------------------- specification

\* The three programs. A behaviour launches each of them at most once, one at
\* a time and in any order.
Scripts == {"event_study", "robustness", "app"}

Init ==
    /\ inp \in Inputs
    /\ fs = [d \in Dirs |-> [f \in FileNames |-> Absent]]
    /\ running = "none"
    /\ pc = "-"
    /\ result = [s \in Scripts |-> "not run"]
    /\ panel = <<>>
    /\ shock_dates = <<>>
    /\ event_df = <<>>
    /\ sigma_path = <<>>
    /\ beta_path = <<>>
    /\ es_outdir = None
    /\ rb_shock_dates = <<>>
    /\ rb_event_df = <<>>
    /\ rb_rows = <<>>
    /\ app_tables = [beta |-> EmptyFrame, sigma |-> EmptyFrame,
                     robust |-> EmptyFrame, shock |-> EmptyFrame]
    /\ app_charts = {}

Next ==
    \/ StartEventStudy \/ EsRead \/ EsDetect \/ EsWindows \/ EsSigma \/ EsBeta
    \/ EsSave \/ EsPlots
    \/ StartRobustness \/ RbLoad \/ RbShocks \/ RbWindows \/ RbRegress \/ RbSave
    \/ StartApp \/ AppLoad \/ AppRender

Spec == Init /\ [][Next]_vars


\* ------------------------------------------------------------------ claims

\* event_study.py has ended, by an exception or by completing.
EsEnded == running # "event_study" /\ result.event_study # "not run"

RbEnded == running # "robustness" /\ result.robustness # "not run"

AppEnded == running # "app" /\ result.app # "not run"

\* No file of event_study.py exists in either directory.
NoEsOutput ==
    \A d \in Dirs : \A f \in FileNames \ {"robust_se_by_event_time.csv"} : ~fs[d][f].exists

MonthsApart(a, b) == (Year(a) - Year(b)) * 12 + (Month(a) - Month(b))

\* C1: once event_study.py has built event_df, a panel row is in the window
\* of a shock date s exactly when s - 6 months <= date <= s + 6 months; every
\* row of event_df is a panel row paired with a shock date and carries
\* event_time = 12 * (difference of years) + (difference of months), which
\* lies in -6..6 and is 0 exactly in the month of the shock.
C1_EventWindows ==
    (running = "event_study" /\ pc = "sigma") =>
        /\ \A k \in DOMAIN shock_dates : \A i \in DOMAIN panel :
              (\E j \in DOMAIN event_df : /\ event_df[j].state = panel[i].state
                                          /\ event_df[j].date = panel[i].date
                                          /\ event_df[j].rel = panel[i].rel
                                          /\ event_df[j].shock_date = shock_dates[k])
              <=> /\ DateOffset(shock_dates[k], -WINDOW) <= panel[i].date
                  /\ panel[i].date <= DateOffset(shock_dates[k], WINDOW)
        /\ \A j \in DOMAIN event_df :
              LET e == event_df[j]
              IN  /\ \E k \in DOMAIN shock_dates : e.shock_date = shock_dates[k]
                  /\ \E i \in DOMAIN panel : /\ panel[i].state = e.state
                                             /\ panel[i].date = e.date
                  /\ e.event_time = MonthsApart(e.date, e.shock_date)
                  /\ -WINDOW <= e.event_time /\ e.event_time <= WINDOW
                  /\ (e.event_time = 0) <=> (/\ Year(e.date) = Year(e.shock_date)
                                             /\ Month(e.date) = Month(e.shock_date))

\* C1's case: event_df holds rows at event times -6, 0 and 6, and a panel row
\* six months from a shock month is left out of that shock's window because
\* of its day of the month.
C1_Witness ==
    /\ running = "event_study" /\ pc = "sigma"
    /\ \A tau \in {-WINDOW, 0, WINDOW} : \E j \in DOMAIN event_df : event_df[j].event_time = tau
    /\ \E k \in DOMAIN shock_dates : \E i \in DOMAIN panel :
          /\ MonthsApart(panel[i].date, shock_dates[k]) \in {-WINDOW, WINDOW}
          /\ ~\E j \in DOMAIN event_df : /\ event_df[j].state = panel[i].state
                                         /\ event_df[j].date = panel[i].date
                                         /\ event_df[j].shock_date = shock_dates[k]

\* C2: when event_study.py has ended after reading its panel: if no shock
\* date was detected it ended with RuntimeError "No shock months detected",
\* if no shock date has a panel row in its window it ended with RuntimeError
\* "No event windows constructed", and in both cases no sigma or beta path
\* was computed and no output file exists.
C2_EmptyResultGuards ==
    (EsEnded /\ panel # <<>>) =>
        /\ shock_dates = <<>> =>
              /\ result.event_study = "RuntimeError: No shock months detected"
              /\ sigma_path = <<>> /\ beta_path = <<>> /\ NoEsOutput
        /\ (shock_dates # <<>> /\ \A k \in DOMAIN shock_dates : ~HasWindow(panel, shock_dates[k])) =>
              /\ result.event_study = "RuntimeError: No event windows constructed"
              /\ sigma_path = <<>> /\ beta_path = <<>> /\ NoEsOutput

\* The charts whose table is not empty.
ChartsOfTables(t) ==
    (IF IsEmpty(t.beta) THEN {} ELSE {"beta-convergence Path"})
    \cup (IF IsEmpty(t.sigma) THEN {} ELSE {"sigma-convergence Path"})
    \cup (IF IsEmpty(t.shock) THEN {} ELSE {"State-wise Shock Dates"})
    \cup (IF IsEmpty(t.robust) THEN {} ELSE {"beta with SEs"})

\* C3: whichever of the four result CSVs are missing, a run of the dashboard
\* loads an empty table for each missing file, ends without an exception and
\* has drawn exactly the charts whose table is not empty.
C3_DashboardLoadsSafely ==
    AppEnded =>
        /\ result.app = "completed"
        /\ \A name \in {"beta", "sigma", "robust", "shock"} :
              LET file == CASE name = "beta"   -> "beta_convergence_event_path.csv"
                            [] name = "sigma"  -> "sigma_convergence_event_path.csv"
                            [] name = "robust" -> "robust_se_by_event_time.csv"
                            [] name = "shock"  -> "shock_dates_used.csv"
              IN  ~fs[SharedOut][file].exists => app_tables[name] = EmptyFrame
        /\ app_charts = ChartsOfTables(app_tables)


\* Both scripts have completed on the directory the dashboard reads.
BothCompleted ==
    /\ result.event_study = "completed" /\ es_outdir = SharedOut
    /\ result.robustness = "completed"

AllCharts == {"beta-convergence Path", "sigma-convergence Path",
              "State-wise Shock Dates", "beta with SEs"}

\* C4: after a successful run of both scripts every column the dashboard
\* reads from a result CSV is a column of that file, the state column of
\* shock_dates_used.csv included, and a dashboard run that loaded the four
\* files draws all four charts.
C4_ColumnAgreement ==
    BothCompleted =>
        /\ HasCols(load_csv("beta_convergence_event_path.csv"), {"event_time", "beta"})
        /\ HasCols(load_csv("sigma_convergence_event_path.csv"), {"event_time", "avg_sigma"})
        /\ \A se_type \in DOMAIN SeColumns :
              HasCols(load_csv("robust_se_by_event_time.csv"),
                      {"event_time"} \cup SeColumns[se_type])
        /\ HasCols(load_csv("shock_dates_used.csv"), {"shock_date", "state"})
        /\ (AppEnded /\ \A name \in DOMAIN app_tables : ~IsEmpty(app_tables[name])) =>
              result.app = "completed" /\ app_charts = AllCharts

\* The (state, date, shock_date, event_time) rows of an event_df.
WindowSet(edf) ==
    {<<edf[i].state, edf[i].date, edf[i].shock_date, edf[i].event_time>> : i \in DOMAIN edf}

\* C5: once robustness_checks.py has built its event_df from the shock dates
\* event_study.py saved, the (state, date, shock_date, event_time) rows of
\* the two scripts' event_df are the same set.
C5_SameEventWindows ==
    rb_event_df # <<>> => WindowSet(rb_event_df) = WindowSet(event_df)

MissingShocks ==
    "FileNotFoundError: shock_dates_used.csv not found. Run event_study.py first."

\* A step of the system as C6 allows it.
C6_Step ==
    /\ (/\ running = "robustness" /\ pc = "shocks"
        /\ ~fs[SharedOut]["shock_dates_used.csv"].exists) =>
          /\ result'.robustness = MissingShocks
          /\ running' = "none"
          /\ fs' = fs
    /\ (/\ ~fs[SharedOut]["robust_se_by_event_time.csv"].exists
        /\ fs'[SharedOut]["robust_se_by_event_time.csv"].exists) =>
          /\ running = "robustness"
          /\ fs[SharedOut]["shock_dates_used.csv"].exists
          /\ result.event_study = "completed" /\ es_outdir = SharedOut
    /\ running = "robustness" =>
          \A d \in Dirs : \A f \in FileNames :
              (d # SharedOut \/ f # "robust_se_by_event_time.csv") => fs'[d][f] = fs[d][f]

\* C6, amended: robustness_checks.py writes robust_se_by_event_time.csv only
\* when shock_dates_used.csv exists in output/event_study_outputs, written
\* there by a completed event_study run; when the script, having read
\* data/clean_panel.csv, finds that file absent, it ends with
\* FileNotFoundError "shock_dates_used.csv not found. Run event_study.py
\* first." and changes no file; and it never changes any other file.
C6_StageOrdering == [][C6_Step]_vars

\* C6's case: the script ended with that FileNotFoundError, the shock file
\* being absent, and there is no robust_se_by_event_time.csv.
C6_Witness ==
    /\ result.robustness = MissingShocks
    /\ ~fs[SharedOut]["shock_dates_used.csv"].exists
    /\ ~fs[SharedOut]["robust_se_by_event_time.csv"].exists

\* C6 as stated: robust_se_by_event_time.csv exists only if
\* shock_dates_used.csv does, and whenever robustness_checks.py has ended
\* with shock_dates_used.csv absent, it ended with FileNotFoundError
\* "shock_dates_used.csv not found. Run event_study.py first." and wrote no
\* result CSV.
C6_AsStated ==
    /\ fs[SharedOut]["robust_se_by_event_time.csv"].exists =>
          fs[SharedOut]["shock_dates_used.csv"].exists
    /\ (RbEnded /\ ~fs[SharedOut]["shock_dates_used.csv"].exists) =>
          /\ result.robustness = MissingShocks
          /\ ~fs[SharedOut]["robust_se_by_event_time.csv"].exists

IsSortedBy(rows, Key(_)) == \A i \in 1..(Len(rows) - 1) : Key(rows[i]) <= Key(rows[i + 1])

\* C7: when both result files exist, with n(tau) the number of rows of
\* event_study's event_df at tau whose lag_rel and d_rel are not missing:
\* beta_convergence_event_path.csv has a row for tau exactly when
\* n(tau) >= 30; robust_se_by_event_time.csv has exactly one row for every
\* tau, with n_obs = n(tau) and beta_hc1 and se_hc1 not NaN exactly when
\* n(tau) >= 30; the event times with an HC1 estimate are the event times of
\* the beta file; and both files are sorted by event_time.
C7_SameThirtyRule ==
    LET betas  == fs[SharedOut]["beta_convergence_event_path.csv"].rows
        robust == fs[SharedOut]["robust_se_by_event_time.csv"].rows
        taus   == {event_df[i].event_time : i \in DOMAIN event_df}
    IN  (fs[SharedOut]["robust_se_by_event_time.csv"].exists /\ BothCompleted) =>
          /\ \A tau \in taus :
                LET n == Len(UsableRows(event_df, tau))
                IN  /\ (\E i \in DOMAIN betas : betas[i].event_time = tau) <=> n >= 30
                    /\ Cardinality({i \in DOMAIN robust : robust[i].event_time = tau}) = 1
                    /\ \A i \in DOMAIN robust : robust[i].event_time = tau =>
                          /\ robust[i].n_obs = n
                          /\ ~IsNaN(robust[i].beta_hc1) <=> n >= 30
                          /\ ~IsNaN(robust[i].se_hc1) <=> n >= 30
          /\ {robust[i].event_time : i \in {j \in DOMAIN robust : ~IsNaN(robust[j].beta_hc1)}}
                = {betas[i].event_time : i \in DOMAIN betas}
          /\ IsSortedBy(betas, LAMBDA r : r.event_time)
          /\ IsSortedBy(robust, LAMBDA r : r.event_time)


\* The series auto-detect mode thresholds, on one common denominator.
ShockSeries ==
    Scaled(IF detect_columns(inp.cols).veg_cols # <<>> THEN VegMom(panel)
           ELSE AbsChange(panel))

\* Auto-detection has acted: the run is past step 4, or ended at its guard.
AutoDetected ==
    /\ inp.explicit = <<>> /\ panel # <<>>
    /\ \/ running = "event_study" /\ pc = "windows"
       \/ result.event_study = "RuntimeError: No shock months detected"

\* The entries of sc strictly above mean + 1.5 * std of its N values, by the
\* moments S1 = sum x and S2 = sum x^2: with std^2 = (N S2 - S1^2) / (N (N - 1)),
\* x > mean + (3/2) std  <=>  N x > S1  and  4 (N - 1) (N x - S1)^2 > 9 N (N S2 - S1^2),
\* the latter compared after division by 4 (N - 1), the left side being an
\* integer:  (N x - S1)^2 > floor(9 N V / (4 (N - 1)))  with V = N S2 - S1^2.
CandidatesOf(sc) ==
    LET have == {k \in DOMAIN sc : ~IsNaN(sc[k].x)}
        ks   == SortedSeqOf(have)
        N    == Cardinality(have)
        S1   == Sum([n \in DOMAIN ks |-> sc[ks[n]].x[1]])
        S2   == Sum([n \in DOMAIN ks |-> sc[ks[n]].x[1] * sc[ks[n]].x[1]])
        V    == N * S2 - S1 * S1
        d    == 4 * (N - 1)
    IN  {k \in have : /\ N >= 2
                      /\ N * sc[k].x[1] > S1
                      /\ (N * sc[k].x[1] - S1) * (N * sc[k].x[1] - S1)
                            > 9 * N * (V \div d) + (9 * N * (V % d)) \div d}

\* C8: in auto-detect mode the shock dates used are distinct dates of
\* candidates, a candidate being a month whose series value is strictly
\* above mean + 1.5 * std of the series; they are all the candidates when
\* there are at most 24; otherwise they are 24, and no candidate left out has
\* a larger value than one kept. There are never more than 24.
C8_ShockDetection ==
    AutoDetected =>
        LET sc    == ShockSeries
            cands == CandidatesOf(sc)
            used  == {shock_dates[i] : i \in DOMAIN shock_dates}
            kept  == {k \in cands : sc[k].date \in used}
        IN  /\ Len(shock_dates) <= MAX_SHOCKS
            /\ Cardinality(used) = Len(shock_dates)
            /\ used \subseteq {sc[k].date : k \in cands}
            /\ Cardinality(cands) <= MAX_SHOCKS => kept = cands
            /\ Cardinality(cands) > MAX_SHOCKS =>
                  /\ Len(shock_dates) = MAX_SHOCKS
                  /\ \A k \in kept : \A j \in cands \ kept : sc[k].x[1] >= sc[j].x[1]

\* C8's case: more than 24 months are candidates, 24 are used, and the one
\* left out has a smaller value than every one kept.
C8_Witness ==
    /\ AutoDetected
    /\ LET sc    == ShockSeries
           cands == CandidatesOf(sc)
           used  == {shock_dates[i] : i \in DOMAIN shock_dates}
       IN  /\ Cardinality(cands) > MAX_SHOCKS
           /\ Len(shock_dates) = MAX_SHOCKS
           /\ \E j \in cands : /\ sc[j].date \notin used
                               /\ \A k \in cands \ {j} : sc[k].x[1] > sc[j].x[1]

\* C9: in every row of the beta path, half_life_months is not NaN exactly
\* when -1 < beta < 0, and then it is ln(0.5) / ln(1 + beta), a strictly
\* positive number; otherwise the row is there with half_life_months NaN.
C9_HalfLife ==
    \A i \in DOMAIN beta_path :
        LET beta == beta_path[i].beta[1]
            hl   == beta_path[i].half_life_months
        IN  /\ ~IsNaN(hl) <=> InOpenUnit(beta)
            /\ ~IsNaN(hl) =>
                  /\ hl[1].kind = "ln(0.5)/ln(1+beta)"
                  /\ hl[1].one_plus_beta = RatAdd(<<1, 1>>, beta.q)
                  /\ HalfLifePositive(hl[1])

\* lag_rel and d_rel of every row of edf come from the row of the same state
\* and the same shock window with the nearest earlier date, and are NaN when
\* there is none.
GroupedLags(edf) ==
    \A key \in {<<edf[i].state, edf[i].shock_date>> : i \in DOMAIN edf} :
        LET group == {j \in DOMAIN edf : <<edf[j].state, edf[j].shock_date>> = key}
        IN  \A i \in group :
                LET prev == {j \in group : edf[j].date < edf[i].date}
                IN  IF prev = {}
                    THEN IsNaN(edf[i].lag_rel) /\ IsNaN(edf[i].d_rel)
                    ELSE LET j == CHOOSE j \in prev : \A k \in prev : edf[k].date <= edf[j].date
                         IN  /\ edf[i].lag_rel = Val(edf[j].rel)
                             /\ edf[i].d_rel = Val(edf[i].rel - edf[j].rel)

\* event_study.py has computed lag_rel and d_rel (step 7 has acted).
EsLagged ==
    \/ running = "event_study" /\ pc = "save"
    \/ result.event_study = "KeyError: 'event_time'"

\* C10: in both scripts, once lag_rel and d_rel are computed, the lag of
\* every row of event_df is the value of the preceding row by date of the
\* same state in the same shock window, d_rel is the row's value minus that
\* lag, and both are NaN for the first row of a window.
C10_LagsStayInGroup ==
    /\ EsLagged => GroupedLags(event_df)
    /\ (running = "robustness" /\ pc = "regress") => GroupedLags(rb_event_df)

\* C10's case: the windows of two shocks overlap, and one observation is the
\* first row of one window (no lag) and a later row of the other (a lag).
C10_Witness ==
    /\ EsLagged
    /\ \E i \in DOMAIN event_df : \E j \in DOMAIN event_df :
          /\ event_df[i].state = event_df[j].state
          /\ event_df[i].date = event_df[j].date
          /\ event_df[i].shock_date # event_df[j].shock_date
          /\ IsNaN(event_df[i].lag_rel)
          /\ ~IsNaN(event_df[j].lag_rel)


\* The panel has at most one observation per state per month.
OnePerStateMonth(pnl) ==
    \A s \in {pnl[i].state : i \in DOMAIN pnl} :
        LET rows == {i \in DOMAIN pnl : pnl[i].state = s}
        IN  \A i \in rows : \A j \in rows :
                (Year(pnl[i].date) = Year(pnl[j].date)
                   /\ Month(pnl[i].date) = Month(pnl[j].date)) => i = j

\* The rows of edf that are the earliest of their state in their shock window.
EarliestRows(edf) ==
    {i \in DOMAIN edf :
        \A j \in DOMAIN edf :
            (edf[j].state = edf[i].state /\ edf[j].shock_date = edf[i].shock_date)
                => edf[i].date <= edf[j].date}

\* C11: with at most one observation per state per month, once step 7 of
\* event_study.py has acted, the earliest row of each state in each shock
\* window has no lag_rel and is among the usable rows of no event time; and
\* every row of the beta path, in memory and in
\* beta_convergence_event_path.csv, has its event time in -5..6, never -6.
C11_EarliestRowNotRegressed ==
    (panel # <<>> /\ OnePerStateMonth(panel)) =>
        /\ (running = "event_study" /\ pc = "save") =>
              \A i \in EarliestRows(event_df) :
                  /\ IsNaN(event_df[i].lag_rel)
                  /\ \A tau \in {event_df[k].event_time : k \in DOMAIN event_df} :
                        LET gg == UsableRows(event_df, tau)
                        IN  \A n \in DOMAIN gg :
                               ~(/\ gg[n].state = event_df[i].state
                                 /\ gg[n].shock_date = event_df[i].shock_date
                                 /\ gg[n].date = event_df[i].date)
        /\ \A i \in DOMAIN beta_path :
              /\ beta_path[i].event_time # -WINDOW
              /\ -WINDOW + 1 <= beta_path[i].event_time
              /\ beta_path[i].event_time <= WINDOW
        /\ \A d \in Dirs :
              LET rows == fs[d]["beta_convergence_event_path.csv"].rows
              IN  \A i \in DOMAIN rows :
                     -WINDOW + 1 <= rows[i].event_time /\ rows[i].event_time <= WINDOW

\* C11's case: the result files are written, every state has a row at event
\* time -6, the sigma path has event time -6 and the beta path starts at -5.
C11_Witness ==
    /\ result.event_study = "completed"
    /\ OnePerStateMonth(panel)
    /\ Cardinality({i \in DOMAIN event_df : event_df[i].event_time = -WINDOW}) >= MIN_OBS
    /\ \E i \in DOMAIN sigma_path : sigma_path[i].event_time = -WINDOW
    /\ \E d \in Dirs :
          LET rows == fs[d]["beta_convergence_event_path.csv"].rows
          IN  /\ rows # <<>>
              /\ rows[1].event_time = -WINDOW + 1


\* The four result files of event_study.py.
EsResultFiles == {"sigma_convergence_event_path.csv", "beta_convergence_event_path.csv",
                  "shock_dates_used.csv", "summary.txt"}

\* C12: in every directory the four result files of event_study.py exist
\* together or not at all; no file of event_study.py exists while the run
\* has not passed step 8, nor after the run ended with an exception, whichever
\* it was (file or sheet missing, a column not detected, no shock month, no
\* event window, an empty beta table); and a completed run has written all
\* four to its output directory.
C12_AllOrNothing ==
    /\ \A d \in Dirs : \/ \A f \in EsResultFiles : fs[d][f].exists
                       \/ \A f \in EsResultFiles : ~fs[d][f].exists
    /\ result.event_study \notin {"not run", "running", "completed"} => NoEsOutput
    /\ (running = "event_study" /\ pc # "plots") => NoEsOutput
    /\ result.event_study = "completed" =>
          \A f \in EsResultFiles : fs[es_outdir][f].exists

\* C12's case: the run computed its sigma path, then ended because no event
\* time had 30 usable observations, and no file was written.
C12_Witness ==
    /\ result.event_study = "KeyError: 'event_time'"
    /\ sigma_path # <<>>
    /\ NoEsOutput

====
